---- MODULE Spec2Model ----
(***************************************************************************)
(* Model of src/main.py: URLProcessor (normalize_url, extract_title,       *)
(* process_url, process_file) and main.                                    *)
(*                                                                         *)
(* Text is modelled as a sequence of one-character strings, so that        *)
(* strip(), startswith(), lower(), the domain regular expression and the   *)
(* substring test work on characters as the Python code does.  The         *)
(* Chinese literals of the source are written as single ASCII tokens       *)
(* (one sequence element each); they are only ever concatenated and        *)
(* compared as a whole.                                                    *)
(*                                                                         *)
(* Spec runs a batch of several lines, UrlSpec a file of one line against  *)
(* every kind of answer, NormalizeSpec the normalisation of one line,      *)
(* ReportSpec a batch whose urls and titles hold the characters of CSV.    *)
(* session.get is modelled attempt by attempt, as urllib3's Retry built in *)
(* __init__ drives it; redirects are not modelled, a response is the final *)
(* one and is received whole.                                              *)
(***************************************************************************)
EXTENDS Integers, Sequences, FiniteSets, TLC

VARIABLES
    file_exists,   \* os.path.exists(file_path)
    answers,       \* how an attempt on the probed servers can end
    decode,        \* how reading the input file went: "unread", "read", "undecodable", "denied"
    lines,         \* the lines readlines() yields once the file decodes
    retries,       \* URLProcessor(retries=...), Retry(total=retries)
    delay,         \* URLProcessor(delay=...)
    output_file,   \* TRUE when -o/--output was given
    site,          \* what the probed servers send in this run: headers and body
    pc,            \* position in main / process_file
    urls,          \* process_file: urls (empty until the file is read)
    i,             \* process_file: enumerate index of the normalisation loop
    valid_urls,    \* process_file: valid_urls, a list of (line number, url)
    warnings,      \* line numbers reported as invalid (the printed warnings)
    results,       \* process_file: results
    output_fh,     \* process_file: output_fh, None or the open file object
    sink_warned,   \* the "cannot create output file" warning was printed
    pending,       \* rows written to output_fh and still in its write buffer
    disk,          \* rows persisted in the file at the output path
    j,             \* position of the batch loop in valid_urls
    total,         \* Retry.total left for the fetch in progress
    fetch,         \* bookkeeping of the fetch in progress (attempts made, outcomes seen)
    result,        \* process_url's return value for the current url
    sleeps,        \* number of time.sleep(self.delay) calls made
    writes,        \* number of output_fh.write calls made for data rows
    ret,           \* process_file's return value
    raised,        \* the exception that left process_file uncaught, or None
    exit_code      \* the status the process exits with

vars == <<file_exists, answers, decode, lines, retries, delay, output_file, site, pc, urls, i,
          valid_urls, warnings, results, output_fh, sink_warned, pending, disk, j,
          total, fetch, result, sleeps, writes, ret, raised, exit_code>>

inputs == <<file_exists, answers, lines, retries, delay, output_file, site>>

\* None where a string may stand: a one-token sequence no text equals.
None == <<"None">>

\* ------------------------------------------------------------------ bounds

\* Longest input file, in lines.
MaxLines == 3
\* Largest retry count given with -r.
MaxRetries == 2
\* Rows the write buffer of the output file holds before it is flushed.
BufferRows == 2
\* Longest text of a line after its scheme in NormalizeSpec.
MaxBody == 4

\* ------------------------------------------------------------------ text

Letters == {"a", "b", "c", "h", "t", "p", "s", "e", "x", "l", "m", "i", "g", "n"}
Capitals == {"T", "H", "M", "L", "I", "P", "N", "G"}
Digits == {"1"}
Whitespace == {" ", "\n"}

\* str.lower() on one character.
LowerChar(c) ==
    CASE c = "T" -> "t" [] c = "H" -> "h" [] c = "M" -> "m" [] c = "L" -> "l"
      [] c = "I" -> "i" [] c = "P" -> "p" [] c = "N" -> "n" [] c = "G" -> "g"
      [] OTHER -> c

\* The content type taken as it comes, .lower() forgotten.
LowerForgotten(s) == s

\* str.lower()
Lower(s) == [k \in 1..Len(s) |-> LowerChar(s[k])]

\* str.startswith(prefix)
StartsWith(s, prefix) ==
    /\ Len(s) >= Len(prefix)
    /\ SubSeq(s, 1, Len(prefix)) = prefix

\* needle in s
Contains(s, needle) ==
    \E k \in 1..(Len(s) + 1) :
        /\ k + Len(needle) - 1 <= Len(s)
        /\ SubSeq(s, k, k + Len(needle) - 1) = needle

\* str.strip(): drops leading and trailing whitespace.
RECURSIVE LStrip(_)
LStrip(s) == IF s # <<>> /\ Head(s) \in Whitespace THEN LStrip(Tail(s)) ELSE s

RECURSIVE RStrip(_)
RStrip(s) ==
    IF s # <<>> /\ s[Len(s)] \in Whitespace THEN RStrip(SubSeq(s, 1, Len(s) - 1)) ELSE s

Strip(s) == RStrip(LStrip(s))

Http == <<"h", "t", "t", "p", ":", "/", "/">>
Https == <<"h", "t", "t", "p", "s", ":", "/", "/">>

\* ------------------------------------------------------------------ normalize_url

\* [a-zA-Z0-9.-]
DomainChar(c) == c \in Letters \cup Capitals \cup Digits \cup {".", "-"}
\* [a-zA-Z]
Alpha(c) == c \in Letters \cup Capitals

\* re.match(r'^[a-zA-Z0-9.-]+\.[a-zA-Z]{2,}', s): a match anchored at the start
\* only; k is the length of the [a-zA-Z0-9.-]+ run the match settles on.
DomainMatch(s) ==
    \E k \in 1..Len(s) :
        /\ \A n \in 1..k : DomainChar(s[n])
        /\ k + 3 <= Len(s)
        /\ s[k + 1] = "."
        /\ Alpha(s[k + 2])
        /\ Alpha(s[k + 3])

\* normalize_url without its "else: return None".
normalize_url_keeps_unmatched(url_line) ==
    LET stripped == Strip(url_line) IN
    IF stripped = <<>> THEN None
    ELSE IF ~(StartsWith(stripped, Http) \/ StartsWith(stripped, Https))
         THEN IF DomainMatch(stripped) THEN Https \o stripped ELSE stripped
         ELSE stripped

normalize_url(url_line) ==
    LET stripped == Strip(url_line) IN
    IF stripped = <<>> THEN None
    ELSE IF ~(StartsWith(stripped, Http) \/ StartsWith(stripped, Https))
         THEN IF DomainMatch(stripped) THEN Https \o stripped ELSE None
         ELSE stripped

\* ------------------------------------------------------------------ literals

\* '请求失败' and '处理失败', the status_code of a failed record.
RequestFailed == "request failed"
ProcessFailed == "processing failed"
\* "错误: ", "非HTML内容: ", "无标题", "标题提取失败: "
ErrorPrefix == <<"error: ">>
NonHtmlPrefix == <<"non-HTML content: ">>
NoTitle == <<"no title">>
ExtractFailedPrefix == <<"title extraction failed: ">>
\* "URL,状态码,标题\n"
HeaderRow == <<"URL,status,title", "\n">>
TextHtml == <<"t", "e", "x", "t", "/", "h", "t", "m", "l">>

\* A status_code is an int (an HTTP status) or a str (a failure marker).
IntVal(n) == <<"int", n>>
StrVal(s) == <<"str", s>>

\* Retry(status_forcelist=[429, 500, 502, 503, 504])
status_forcelist == {429, 500, 502, 503, 504}
\* urllib3 Retry.RETRY_AFTER_STATUS_CODES, in force as respect_retry_after_header
\* keeps its default
RETRY_AFTER_STATUS_CODES == {413, 429, 503}

\* ------------------------------------------------------------------ extract_title

\* extract_title answering a parse failure with the no-title placeholder.
extract_title_hides_failure(html_content) ==
    IF html_content.parse_error # <<>>
    THEN NoTitle
    ELSE IF html_content.title_tag # <<>>
         THEN Strip(html_content.title_tag[1])
         ELSE NoTitle

\* A response body, as BeautifulSoup sees it: title_tag is <<>> when soup.find('title')
\* finds nothing and <<text>> with the first title's text otherwise; parse_error is
\* <<message>> when parsing raises.
extract_title(html_content) ==
    IF html_content.parse_error # <<>>
    THEN ExtractFailedPrefix \o html_content.parse_error[1]
    ELSE IF html_content.title_tag # <<>>
         THEN Strip(html_content.title_tag[1])
         ELSE NoTitle

\* response.headers.get(name, default); headers is a sequence of <<name, value>>.
RECURSIVE HeaderGet(_, _, _)
HeaderGet(headers, name, default) ==
    IF headers = <<>> THEN default
    ELSE IF Head(headers)[1] = name THEN Head(headers)[2]
    ELSE HeaderGet(Tail(headers), name, default)

\* ------------------------------------------------------------------ process_url

\* The try body of process_url once session.get returned a response: the record
\* and the number of extract_title calls made for it.
process_response(url, response) ==
    LET status_code == response.status_code
        content_type == Lower(HeaderGet(response.headers, "content-type", <<>>))
    IN  IF Contains(content_type, TextHtml)
        THEN [record |-> [url |-> url, status_code |-> IntVal(status_code),
                          title |-> extract_title(response.content), success |-> TRUE],
              extract_calls |-> 1]
        ELSE [record |-> [url |-> url, status_code |-> IntVal(status_code),
                          title |-> NonHtmlPrefix \o content_type, success |-> TRUE],
              extract_calls |-> 0]

\* The RequestException clause answering with 'success': True.
request_failed_marked_success(url, message) ==
    [url |-> url, status_code |-> StrVal(RequestFailed),
     title |-> ErrorPrefix \o message, success |-> TRUE]

\* except requests.exceptions.RequestException as e
request_failed(url, message) ==
    [url |-> url, status_code |-> StrVal(RequestFailed),
     title |-> ErrorPrefix \o message, success |-> FALSE]

\* except Exception as e
process_failed(url, message) ==
    [url |-> url, status_code |-> StrVal(ProcessFailed),
     title |-> ErrorPrefix \o message, success |-> FALSE]

\* The except clauses of process_url: the record made of exception exc, as <<record>>,
\* or <<>> when no clause catches it. "except Exception" catches whatever is no
\* RequestException.
RequestExceptions == {"RetryError", "ConnectionError"}
process_url_except(url, exc) ==
    IF exc \in RequestExceptions
    THEN <<request_failed(url, <<exc>>)>>
    ELSE <<process_failed(url, <<exc>>)>>

\* is_retry retrying a Retry-After answer even with nothing left of the budget.
is_retry_ignores_budget(status_code, has_retry_after, left) ==
    \/ status_code \in status_forcelist
    \/ (has_retry_after /\ status_code \in RETRY_AFTER_STATUS_CODES)

\* urllib3 Retry.is_retry(method, status_code, has_retry_after) for a GET, as the
\* Retry built in __init__ decides it: a forced status is retried whatever is left
\* of the budget, a Retry-After answer only while total is not 0.
is_retry(status_code, has_retry_after, left) ==
    \/ status_code \in status_forcelist
    \/ (left # 0 /\ has_retry_after /\ status_code \in RETRY_AFTER_STATUS_CODES)

\* is_exhausted letting the budget run one below what was asked for.
is_exhausted_one_late(left) == left - 1 < -1

\* Retry.increment(...).is_exhausted(): the budget after one more retry is below 0.
is_exhausted(left) == left - 1 < 0

\* ------------------------------------------------------------------ the output file

\* str(status_code) of an int, digit by digit.
DigitChar(d) == CASE d = 0 -> "0" [] d = 1 -> "1" [] d = 2 -> "2" [] d = 3 -> "3"
                  [] d = 4 -> "4" [] d = 5 -> "5" [] d = 6 -> "6" [] d = 7 -> "7"
                  [] d = 8 -> "8" [] d = 9 -> "9"

RECURSIVE IntStr(_)
IntStr(n) == IF n < 10 THEN <<DigitChar(n)>> ELSE IntStr(n \div 10) \o <<DigitChar(n % 10)>>

\* f"{status_display}": an int prints its digits, a marker prints itself.
status_display(rec) ==
    IF rec.status_code[1] = "int" THEN IntStr(rec.status_code[2]) ELSE <<rec.status_code[2]>>

\* str.replace(old, new) for a one-character old.
RECURSIVE Replace(_, _, _)
Replace(s, old, new) ==
    IF s = <<>> THEN <<>>
    ELSE (IF Head(s) = old THEN new ELSE <<Head(s)>>) \o Replace(Tail(s), old, new)

\* The row process_file writes for a record: f'"{url}","{status_display}","{title_csv}"\n'
csv_row(rec) ==
    LET title_csv == Replace(rec.title, "\"", <<"\"", "\"">>) IN
    <<"\"">> \o rec.url \o <<"\"", ",", "\"">> \o status_display(rec)
        \o <<"\"", ",", "\"">> \o title_csv \o <<"\"", "\n">>

\* output_fh.write(row) on the buffered file object open() returns: the row joins
\* the buffer, and the buffer is written out first when the row no longer fits.
\* Nothing in process_file flushes. Yields the buffer and the file content after.
fh_write(buf, file, row) ==
    IF Len(buf) + 1 > BufferRows
    THEN [pending |-> <<row>>, disk |-> file \o buf]
    ELSE [pending |-> Append(buf, row), disk |-> file]

\* output_fh.close(): writes the buffer out.
fh_close(buf, file) == [pending |-> <<>>, disk |-> file \o buf]

\* ------------------------------------------------------------------ inputs

\* The lines of the input file the batch is run on: a blank line, a malformed
\* line, a bare domain and a URL that names its scheme.
BlankLine == <<" ", "\n">>
MalformedLine == <<"!", "x", "\n">>
DomainLine == <<"a", ".", "b", "c", "\n">>
UrlLine == <<"h", "t", "t", "p", ":", "/", "/", "x", "\n">>
LinePool == {BlankLine, MalformedLine, DomainLine, UrlLine}
\* A URL that names its scheme and holds a double quote: startswith lets it through.
QuotedUrlLine == <<"h", "t", "t", "p", ":", "/", "/", "\"", "x", "\n">>
ReportLinePool == {UrlLine, QuotedUrlLine}

RECURSIVE SeqsUpTo(_, _)
SeqsUpTo(S, n) ==
    IF n = 0 THEN {<<>>}
    ELSE LET shorter == SeqsUpTo(S, n - 1) IN
         shorter \cup {Append(q, x) : q \in {t \in shorter : Len(t) = n - 1}, x \in S}

\* Lines for the normaliser alone: blanks or none in front, a scheme or something
\* like one or none, up to MaxBody characters, and a line end or none.
BodyChars == {"a", "1", ".", "!", " "}
Schemes == {<<>>, Http, Https, <<"H", "T", "T", "P", ":", "/", "/">>}
NormalizeLines ==
    {lead \o scheme \o body \o trail :
        lead \in {<<>>, <<" ">>}, scheme \in Schemes,
        body \in SeqsUpTo(BodyChars, MaxBody), trail \in {<<>>, <<"\n">>}}

\* What a probed server sends with a response: its headers and its body.
HtmlTitled ==
    [headers |-> << <<"content-type", <<"T", "e", "x", "t", "/", "H", "T", "M", "L">> >> >>,
     content |-> [title_tag |-> << <<" ", "H", "i", " ">> >>, parse_error |-> <<>>]]
HtmlUntitled ==
    [headers |-> << <<"content-type", <<"t", "e", "x", "t", "/", "h", "t", "m", "l">> >> >>,
     content |-> [title_tag |-> <<>>, parse_error |-> <<>>]]
HtmlBroken ==
    [headers |-> << <<"content-type", <<"t", "e", "x", "t", "/", "h", "t", "m", "l">> >> >>,
     content |-> [title_tag |-> <<>>, parse_error |-> << <<"parser error">> >>]]
NoContentType ==
    [headers |-> <<>>,
     content |-> [title_tag |-> << <<"H", "i">> >>, parse_error |-> <<>>]]
Png ==
    [headers |-> << <<"content-type", <<"I", "m", "a", "g", "e", "/", "P", "N", "G">> >> >>,
     content |-> [title_tag |-> <<>>, parse_error |-> <<>>]]
Sites == {HtmlTitled, HtmlUntitled, HtmlBroken, NoContentType, Png}
\* A page whose title holds a double quote, a comma and a line break.
HtmlQuoted ==
    [headers |-> << <<"content-type", <<"t", "e", "x", "t", "/", "h", "t", "m", "l">> >> >>,
     content |-> [title_tag |-> << <<" ", "a", "\"", ",", "\n", "b", " ">> >>,
                  parse_error |-> <<>>]]

\* The statuses a server answers with, and whether a Retry-After header comes along.
Statuses == {200, 404, 413, 503}
Answers == {[kind |-> "response", status_code |-> s, retry_after |-> ra] :
                s \in Statuses, ra \in BOOLEAN}
\* One attempt of session.get ends in a response, in a transport error urllib3
\* retries (connection refused, timeout), or in an exception that is no
\* RequestException.
TransportError == [kind |-> "transport_error", status_code |-> 0, retry_after |-> FALSE]
OtherError == [kind |-> "other_error", status_code |-> 0, retry_after |-> FALSE]
Outcomes == Answers \cup {TransportError, OtherError}
BatchOutcomes == {o \in Answers : o.status_code \in {200, 503} /\ ~o.retry_after}
                     \cup {TransportError}

\* The file at the output path before the run.
OldFile == << <<"old">> >>

\* No fetch in progress: nothing attempted. forced counts the attempts that ended in
\* a status of status_forcelist, failed those that ended in a transport error,
\* responses those that ended in any response; last is the last attempt's outcome.
Idle == [attempts |-> 0, responses |-> 0, forced |-> 0, failed |-> 0, last |-> <<>>,
         extract_calls |-> 0]

\* ------------------------------------------------------------------ Init

InitWith(lineSeqs, siteSet, retrySet, delaySet, answerSets) ==
    /\ file_exists \in BOOLEAN
    /\ decode = "unread"
    /\ lines \in (IF file_exists THEN lineSeqs ELSE {<<>>})
    /\ answers \in answerSets
    /\ retries \in retrySet
    /\ delay \in delaySet
    /\ output_file \in BOOLEAN
    /\ site \in siteSet
    /\ pc = "main"
    /\ urls = <<>>
    /\ i = 1
    /\ valid_urls = <<>>
    /\ warnings = <<>>
    /\ results = <<>>
    /\ output_fh = "None"
    /\ sink_warned = FALSE
    /\ pending = <<>>
    /\ disk = OldFile
    /\ j = 1
    /\ total = 0
    /\ fetch = Idle
    /\ result = <<>>
    /\ sleeps = 0
    /\ writes = 0
    /\ ret = "None"
    /\ raised = "None"
    /\ exit_code = <<>>

\* A batch of up to MaxLines lines, with one retry, on servers that answer 200 or
\* 503 or not at all, with a titled page, a page that does not parse or an image.
Init == InitWith(SeqsUpTo(LinePool, MaxLines), {HtmlTitled, HtmlBroken, Png}, {1}, {0, 1},
                 {BatchOutcomes})

\* A file of one line drawn from NormalizeLines.
NormalizeInit ==
    InitWith({<<l>> : l \in NormalizeLines}, {HtmlTitled}, {1}, {0}, {BatchOutcomes})

\* A file of one line, on servers and networks of every kind.
UrlInit == InitWith(SeqsUpTo(LinePool, 1), Sites, 0..MaxRetries, {0, 1}, {Outcomes})

\* A batch of urls with and without a double quote, on pages with and without one
\* in the title, with -d negative, zero or positive.
ReportInit ==
    InitWith(SeqsUpTo(ReportLinePool, MaxLines), {HtmlTitled, HtmlQuoted}, {1}, {-1, 0, 1},
             {BatchOutcomes})

\* ------------------------------------------------------------------ main, process_file

\* main: the existence check and the construction of the processor.
Main ==
    /\ pc = "main"
    /\ IF ~file_exists
       THEN pc' = "exited" /\ exit_code' = <<1>>
       ELSE pc' = "process_file" /\ UNCHANGED exit_code
    /\ UNCHANGED <<inputs, decode, urls, i, valid_urls, warnings, results, output_fh, sink_warned,
                   pending, disk, j, total, fetch, result, sleeps, writes, ret, raised>>

\* process_file: the existence check and the reading of the file, UTF-8 first and
\* GBK after a UnicodeDecodeError. Only the GBK attempt catches every exception:
\* an open() that raises in the first attempt leaves process_file.
ReadFile ==
    /\ pc = "process_file"
    /\ IF ~file_exists
       THEN ret' = "False" /\ pc' = "returned" /\ UNCHANGED <<urls, raised, decode>>
       ELSE \E how \in {"utf8", "gbk", "undecodable", "denied"} :
              CASE how \in {"utf8", "gbk"} ->
                     /\ urls' = lines /\ decode' = "read" /\ pc' = "normalize"
                     /\ UNCHANGED <<ret, raised>>
                [] how = "undecodable" ->
                     /\ ret' = "False" /\ decode' = how /\ pc' = "returned"
                     /\ UNCHANGED <<urls, raised>>
                [] how = "denied" ->
                     /\ raised' = "PermissionError" /\ decode' = how /\ pc' = "raised"
                     /\ UNCHANGED <<urls, ret>>
    /\ UNCHANGED <<inputs, i, valid_urls, warnings, results, output_fh, sink_warned,
                   pending, disk, j, total, fetch, result, sleeps, writes, exit_code>>

\* The normalisation loop leaving at the first line that does not normalise.
NormalizeLineStopsAtInvalid ==
    /\ pc = "normalize"
    /\ i <= Len(urls)
    /\ LET normalized_url == normalize_url(urls[i]) IN
       IF normalized_url # None
       THEN /\ valid_urls' = Append(valid_urls, <<i, normalized_url>>)
            /\ i' = i + 1
            /\ UNCHANGED warnings
       ELSE /\ warnings' = Append(warnings, i)
            /\ i' = Len(urls) + 1
            /\ UNCHANGED valid_urls
    /\ UNCHANGED <<inputs, decode, pc, urls, results, output_fh, sink_warned, pending, disk, j,
                   total, fetch, result, sleeps, writes, ret, raised, exit_code>>

\* The normalisation loop passing over an empty line without a warning.
NormalizeLineSilentOnBlank ==
    /\ pc = "normalize"
    /\ i <= Len(urls)
    /\ LET normalized_url == normalize_url(urls[i]) IN
       IF normalized_url # None
       THEN valid_urls' = Append(valid_urls, <<i, normalized_url>>) /\ UNCHANGED warnings
       ELSE IF Strip(urls[i]) = <<>>
       THEN UNCHANGED <<valid_urls, warnings>>
       ELSE warnings' = Append(warnings, i) /\ UNCHANGED valid_urls
    /\ i' = i + 1
    /\ UNCHANGED <<inputs, decode, pc, urls, results, output_fh, sink_warned, pending, disk, j,
                   total, fetch, result, sleeps, writes, ret, raised, exit_code>>

\* One round of "for i, url_line in enumerate(urls, 1)".
NormalizeLine ==
    /\ pc = "normalize"
    /\ i <= Len(urls)
    /\ LET normalized_url == normalize_url(urls[i]) IN
       IF normalized_url # None
       THEN valid_urls' = Append(valid_urls, <<i, normalized_url>>) /\ UNCHANGED warnings
       ELSE warnings' = Append(warnings, i) /\ UNCHANGED valid_urls
    /\ i' = i + 1
    /\ UNCHANGED <<inputs, decode, pc, urls, results, output_fh, sink_warned, pending, disk, j,
                   total, fetch, result, sleeps, writes, ret, raised, exit_code>>

\* process_file without its "if not valid_urls: return False".
CheckValidGoesOn ==
    /\ pc = "normalize"
    /\ i > Len(urls)
    /\ ret' = ret /\ pc' = "open_output"
    /\ UNCHANGED <<inputs, decode, urls, i, valid_urls, warnings, results, output_fh, sink_warned,
                   pending, disk, j, total, fetch, result, sleeps, writes, raised,
                   exit_code>>

\* "if not valid_urls: return False", else on to the output file.
CheckValid ==
    /\ pc = "normalize"
    /\ i > Len(urls)
    /\ IF valid_urls = <<>>
       THEN ret' = "False" /\ pc' = "returned"
       ELSE ret' = ret /\ pc' = "open_output"
    /\ UNCHANGED <<inputs, decode, urls, i, valid_urls, warnings, results, output_fh, sink_warned,
                   pending, disk, j, total, fetch, result, sleeps, writes, raised,
                   exit_code>>

\* "if output_file:" with open() and the header write succeeding, or no output file.
OpenOutput ==
    /\ pc = "open_output"
    /\ IF output_file
       THEN LET w == fh_write(<<>>, <<>>, HeaderRow) IN
            output_fh' = "file" /\ pending' = w.pending /\ disk' = w.disk
       ELSE UNCHANGED <<output_fh, pending, disk>>
    /\ pc' = "loop"
    /\ UNCHANGED <<inputs, decode, urls, i, valid_urls, warnings, results, sink_warned, j, total,
                   fetch, result, sleeps, writes, ret, raised, exit_code>>

\* open() raising with no except clause around it: the exception leaves process_file.
OpenOutputFailsAborts ==
    /\ pc = "open_output"
    /\ output_file
    /\ sink_warned' = TRUE
    /\ raised' = "OSError"
    /\ pc' = "raised"
    /\ UNCHANGED <<inputs, decode, urls, i, valid_urls, warnings, results, output_fh, pending, disk,
                   j, total, fetch, result, sleeps, writes, ret, exit_code>>

\* open() raises: output_fh stays None and the warning is printed.
OpenOutputFails ==
    /\ pc = "open_output"
    /\ output_file
    /\ sink_warned' = TRUE
    /\ pc' = "loop"
    /\ UNCHANGED <<inputs, decode, urls, i, valid_urls, warnings, results, output_fh, pending, disk,
                   j, total, fetch, result, sleeps, writes, ret, raised, exit_code>>

\* open() succeeds (truncating the file) and the header write raises: the warning
\* is printed, and output_fh already names the open file.
HeaderWriteFails ==
    /\ pc = "open_output"
    /\ output_file
    /\ output_fh' = "file"
    /\ disk' = <<>>
    /\ sink_warned' = TRUE
    /\ pc' = "loop"
    /\ UNCHANGED <<inputs, decode, urls, i, valid_urls, warnings, results, pending, j, total,
                   fetch, result, sleeps, writes, ret, raised, exit_code>>

\* "for line_num, url in valid_urls": the next url, and session.get starts on it
\* with the whole retry budget.
BeginUrl ==
    /\ pc = "loop"
    /\ j <= Len(valid_urls)
    /\ total' = retries
    /\ fetch' = Idle
    /\ pc' = "fetch"
    /\ UNCHANGED <<inputs, decode, urls, i, valid_urls, warnings, results, output_fh, sink_warned,
                   pending, disk, j, result, sleeps, writes, ret, raised, exit_code>>

\* One attempt of session.get(url) inside process_url, and what process_url makes
\* of it. A retried attempt costs one of total; an attempt to retry with nothing
\* left raises MaxRetryError (raise_on_status keeps its default, True), which
\* requests hands on as RetryError (after a response) or ConnectionError (after a
\* transport error), both RequestException.
Attempt(o) ==
    LET url == valid_urls[j][2]
        seen == [fetch EXCEPT !.attempts = @ + 1,
                              !.responses = IF o.kind = "response" THEN @ + 1 ELSE @,
                              !.forced = IF o.kind = "response" /\ o.status_code \in status_forcelist
                                         THEN @ + 1 ELSE @,
                              !.failed = IF o.kind = "transport_error" THEN @ + 1 ELSE @,
                              !.last = <<o>>]
        again == \/ o.kind = "transport_error"
                 \/ o.kind = "response" /\ is_retry(o.status_code, o.retry_after, total)
        exc == IF again
               THEN (IF o.kind = "response" THEN "RetryError" ELSE "ConnectionError")
               ELSE IF o.kind = "other_error" THEN "Exception" ELSE "None"
    IN  IF again /\ ~is_exhausted(total)
        THEN /\ total' = total - 1
             /\ fetch' = seen
             /\ UNCHANGED <<pc, result, raised>>
        ELSE /\ total' = 0
             /\ IF exc # "None"
                THEN LET handled == process_url_except(url, exc) IN
                     /\ fetch' = seen
                     /\ IF handled # <<>>
                        THEN result' = handled /\ pc' = "emit" /\ UNCHANGED raised
                        ELSE raised' = exc /\ pc' = "raised" /\ UNCHANGED result
                ELSE LET done == process_response(url,
                                     [status_code |-> o.status_code, headers |-> site.headers,
                                      content |-> site.content])
                     IN /\ result' = <<done.record>>
                        /\ fetch' = [seen EXCEPT !.extract_calls = done.extract_calls]
                        /\ pc' = "emit"
                        /\ UNCHANGED raised

FetchAttempt ==
    /\ pc = "fetch"
    /\ \E o \in answers : Attempt(o)
    /\ UNCHANGED <<inputs, decode, urls, i, valid_urls, warnings, results, output_fh,
                   sink_warned, pending, disk, j, sleeps, writes, ret, exit_code>>

\* The loop body sleeping whenever the delay is not zero, a negative one included.
EmitResultSleepsUnlessZero ==
    /\ pc = "emit"
    /\ results' = Append(results, result[1])
    /\ IF output_fh # "None"
       THEN LET w == fh_write(pending, disk, csv_row(result[1])) IN
            pending' = w.pending /\ disk' = w.disk /\ writes' = writes + 1
       ELSE UNCHANGED <<pending, disk, writes>>
    /\ sleeps' = IF delay # 0 THEN sleeps + 1 ELSE sleeps
    /\ j' = j + 1
    /\ fetch' = Idle
    /\ pc' = "loop"
    /\ UNCHANGED <<inputs, decode, urls, i, valid_urls, warnings, output_fh, sink_warned, total,
                   result, ret, raised, exit_code>>

\* The rest of the loop body once process_url returned: append, print, write the
\* row, sleep.
EmitResult ==
    /\ pc = "emit"
    /\ results' = Append(results, result[1])
    /\ IF output_fh # "None"
       THEN LET w == fh_write(pending, disk, csv_row(result[1])) IN
            pending' = w.pending /\ disk' = w.disk /\ writes' = writes + 1
       ELSE UNCHANGED <<pending, disk, writes>>
    /\ sleeps' = IF delay > 0 THEN sleeps + 1 ELSE sleeps
    /\ j' = j + 1
    /\ fetch' = Idle
    /\ pc' = "loop"
    /\ UNCHANGED <<inputs, decode, urls, i, valid_urls, warnings, output_fh, sink_warned, total,
                   result, ret, raised, exit_code>>

\* output_fh.write raises on a row (the device is full as the buffer is written
\* out, the title does not encode): nothing catches it and process_file is left.
RowWriteFails ==
    /\ pc = "emit"
    /\ output_fh # "None"
    /\ results' = Append(results, result[1])
    /\ writes' = writes + 1
    /\ raised' = "OSError"
    /\ fetch' = Idle
    /\ pc' = "raised"
    /\ UNCHANGED <<inputs, decode, urls, i, valid_urls, warnings, output_fh, sink_warned, pending,
                   disk, j, total, result, sleeps, ret, exit_code>>

\* After the loop: close the output file, print the summary, return True.
FinishFile ==
    /\ pc = "loop"
    /\ j > Len(valid_urls)
    /\ IF output_fh # "None"
       THEN LET c == fh_close(pending, disk) IN pending' = c.pending /\ disk' = c.disk
       ELSE UNCHANGED <<pending, disk>>
    /\ ret' = "True"
    /\ pc' = "returned"
    /\ UNCHANGED <<inputs, decode, urls, i, valid_urls, warnings, results, output_fh, sink_warned,
                   j, total, fetch, result, sleeps, writes, raised, exit_code>>

\* output_fh.close() raises while it writes the buffer out.
CloseFails ==
    /\ pc = "loop"
    /\ j > Len(valid_urls)
    /\ output_fh # "None"
    /\ raised' = "OSError"
    /\ pc' = "raised"
    /\ UNCHANGED <<inputs, decode, urls, i, valid_urls, warnings, results, output_fh, sink_warned,
                   pending, disk, j, total, fetch, result, sleeps, writes, ret, exit_code>>

\* main after process_file returned: "if not success: sys.exit(1)".
Exit ==
    /\ pc = "returned"
    /\ exit_code' = IF ret = "True" THEN <<0>> ELSE <<1>>
    /\ pc' = "exited"
    /\ UNCHANGED <<inputs, decode, urls, i, valid_urls, warnings, results, output_fh, sink_warned,
                   pending, disk, j, total, fetch, result, sleeps, writes, ret, raised>>

\* An exception nothing caught ends the interpreter with status 1.
Uncaught ==
    /\ pc = "raised"
    /\ exit_code' = <<1>>
    /\ pc' = "exited"
    /\ UNCHANGED <<inputs, decode, urls, i, valid_urls, warnings, results, output_fh, sink_warned,
                   pending, disk, j, total, fetch, result, sleeps, writes, ret, raised>>

Next ==
    \/ Main
    \/ ReadFile
    \/ NormalizeLine
    \/ CheckValid
    \/ OpenOutput
    \/ OpenOutputFails
    \/ HeaderWriteFails
    \/ BeginUrl
    \/ FetchAttempt
    \/ EmitResult
    \/ RowWriteFails
    \/ FinishFile
    \/ CloseFails
    \/ Exit
    \/ Uncaught

Spec == Init /\ [][Next]_vars

UrlSpec == UrlInit /\ [][Next]_vars

ReportSpec == ReportInit /\ [][Next]_vars

\* The reading and the normalisation of a file of one line, as far as the test
\* "if not valid_urls".
NormalizeNext ==
    \/ Main
    \/ ReadFile
    \/ NormalizeLine
    \/ CheckValid
    \/ Exit
    \/ Uncaught

NormalizeSpec == NormalizeInit /\ [][NormalizeNext]_vars

\* ------------------------------------------------------------------ claims

\* A line of blanks only, said without strip().
OnlyWhitespace(l) == \A n \in 1..Len(l) : l[n] \in Whitespace

\* The first characters of u are those of p.
BeginsWith(u, p) == Len(u) >= Len(p) /\ \A n \in 1..Len(p) : u[n] = p[n]

\* C9: whatever the line, normalize_url gives a string that starts with http://
\* or https://, or None (then the line is reported), and it gives None for an
\* empty or whitespace-only line; nothing is raised while lines are normalised.
C9_NormalizeContract ==
    /\ \A n \in 1..Len(valid_urls) :
          LET u == valid_urls[n][2] IN
          /\ u # None
          /\ BeginsWith(u, Http) \/ BeginsWith(u, Https)
    /\ pc \in {"normalize", "open_output"} =>
          /\ raised = "None"
          /\ Len(valid_urls) + Len(warnings) = i - 1
          /\ \A k \in 1..(i - 1) :
                OnlyWhitespace(urls[k]) => k \in {warnings[n] : n \in 1..Len(warnings)}

\* C9 witness: a bare domain between blanks came back with https:// in front.
C9_Witness ==
    /\ pc = "open_output"
    /\ lines = << <<" ", "a", ".", "a", "a", "\n">> >>
    /\ valid_urls = << <<1, Https \o <<"a", ".", "a", "a">> >> >>

\* The url process_url is working on, and what is known of the fetch once
\* process_url has returned (pc = "emit").
Last == fetch.last[1]

\* C1: the record process_url returns has success = TRUE exactly when at least
\* one HTTP response was received for the url, whatever its status.
C1_SuccessIffResponse ==
    pc = "emit" => (result[1].success <=> fetch.responses > 0)

\* C2: when all retries+1 attempts ended in a status of the retry list or in a
\* transport error and the last one was a response, the record carries that
\* response's numeric status (the fetch returned it, no exception came out of it).
C2_ExhaustedReturnsLast ==
    (/\ pc = "emit"
     /\ fetch.attempts = retries + 1
     /\ fetch.forced + fetch.failed = fetch.attempts
     /\ Last.kind = "response")
    => result[1].status_code = IntVal(Last.status_code)

\* Attempt k+1 has just ended in a response whose status is not in the retry
\* list, after k attempts that all ended in a status of the retry list.
AnsweredAfterForced ==
    /\ pc \in {"fetch", "emit"}
    /\ fetch.attempts >= 1
    /\ fetch.forced = fetch.attempts - 1
    /\ Last.kind = "response"
    /\ Last.status_code \notin status_forcelist

ReturnedLast ==
    /\ pc = "emit"
    /\ result[1].status_code = IntVal(Last.status_code)
    /\ result[1].success

\* C3 as stated: after k <= retries attempts that ended in a status of the retry
\* list, a response with any other status s ends the fetch, and the record has
\* status_code = s and success = TRUE.
C3_RetriesTransparent == AnsweredAfterForced => ReturnedLast

\* C3 as amended: the same, unless the response is one urllib3 retries for its
\* Retry-After header: a 413 (429, 503) with that header while k < retries.
C3_RetriesTransparentButRetryAfter ==
    (/\ AnsweredAfterForced
     /\ ~(/\ Last.retry_after
          /\ Last.status_code \in {413, 429, 503}
          /\ fetch.attempts - 1 < retries))
    => ReturnedLast

\* C3 witness: 503, 503, 200 with two retries gave status 200, success.
C3_Witness ==
    /\ pc = "emit"
    /\ retries = 2
    /\ fetch.attempts = 3
    /\ fetch.forced = 2
    /\ result[1].status_code = IntVal(200)
    /\ result[1].success

\* The declared content type names text/html in whatever case, said without lower().
MentionsHtml(ct) ==
    \E k \in 1..Len(ct) :
        /\ k + 8 <= Len(ct)
        /\ ct[k] \in {"t", "T"} /\ ct[k + 1] \in {"e", "E"} /\ ct[k + 2] \in {"x", "X"}
        /\ ct[k + 3] \in {"t", "T"} /\ ct[k + 4] = "/" /\ ct[k + 5] \in {"h", "H"}
        /\ ct[k + 6] \in {"t", "T"} /\ ct[k + 7] \in {"m", "M"} /\ ct[k + 8] \in {"l", "L"}

DeclaredType == IF site.headers = <<>> THEN <<>> ELSE site.headers[1][2]

\* C10: for a response process_url received, extract_title is called exactly when
\* the content-type header, in lower case, contains text/html; otherwise (also
\* with no header) the title is the non-HTML prefix and the content type in lower
\* case, and extract_title is not called.
C10_ContentTypeGate ==
    (pc = "emit" /\ result[1].success) =>
        IF MentionsHtml(DeclaredType)
        THEN fetch.extract_calls = 1
        ELSE /\ fetch.extract_calls = 0
             /\ Len(result[1].title) = 1 + Len(DeclaredType)
             /\ SubSeq(result[1].title, 1, 1) = NonHtmlPrefix
             /\ \A n \in 1..Len(DeclaredType) :
                   /\ result[1].title[n + 1] \notin Capitals
                   /\ LowerChar(DeclaredType[n]) = result[1].title[n + 1]

\* C10 witness: an image, declared as Image/PNG, was answered and not parsed.
C10_Witness ==
    /\ pc = "emit"
    /\ site = Png
    /\ result[1].success
    /\ fetch.extract_calls = 0
    /\ result[1].title = NonHtmlPrefix \o <<"i", "m", "a", "g", "e", "/", "p", "n", "g">>

\* What each line of LinePool is to normalise to.
ExpectedUrl(l) ==
    CASE l = DomainLine -> <<"h", "t", "t", "p", "s", ":", "/", "/", "a", ".", "b", "c">>
      [] l = UrlLine -> <<"h", "t", "t", "p", ":", "/", "/", "x">>
      [] OTHER -> None

\* The urls of the lines that normalise, in line order.
RECURSIVE ExpectedUrls(_)
ExpectedUrls(ls) ==
    IF ls = <<>> THEN <<>>
    ELSE (IF ExpectedUrl(Head(ls)) # None THEN <<ExpectedUrl(Head(ls))>> ELSE <<>>)
             \o ExpectedUrls(Tail(ls))

ResultUrls == [n \in 1..Len(results) |-> results[n].url]

\* C4: whatever the per-url outcomes, process_url returns a record of url,
\* status_code, title and success and raises nothing, the loop goes through every
\* valid url, and process_file ends by returning True.
C4_FailureContainment ==
    /\ pc = "emit" =>
          /\ DOMAIN result[1] = {"url", "status_code", "title", "success"}
          /\ result[1].url = valid_urls[j][2]
    /\ raised \notin RequestExceptions \cup {"Exception"}
    /\ (pc = "exited" /\ valid_urls # <<>>) =>
          /\ ret = "True"
          /\ Len(results) = Len(valid_urls)

\* C5: when process_file is through, results holds one record per line that
\* normalised, in line order, and the lines that did not normalise left none;
\* on the way results holds the records of the first urls, in that order.
C5_OneRecordPerValidLine ==
    /\ ret = "True" => ResultUrls = ExpectedUrls(lines)
    /\ pc \in {"loop", "fetch", "emit"} =>
          /\ Len(results) = j - 1
          /\ ResultUrls = SubSeq(ExpectedUrls(lines), 1, j - 1)

\* C5 witness: a malformed line between two valid ones, and both were processed.
C5_Witness ==
    /\ ret = "True"
    /\ lines = <<DomainLine, MalformedLine, UrlLine>>
    /\ Len(results) = 2
    /\ results[1].url # results[2].url

\* The three lines are a blank line, a malformed line and a valid domain.
BlankMalformedValid ==
    /\ Len(lines) = 3
    /\ {lines[1], lines[2], lines[3]} = {BlankLine, MalformedLine, DomainLine}

\* C6 as stated: a blank line, a malformed line and a valid domain, in any order,
\* give exactly one record and exactly one normalisation warning.
C6_OneRecordOneWarning ==
    (pc = "exited" /\ decode = "read" /\ BlankMalformedValid) =>
        (Len(results) = 1 /\ Len(warnings) = 1)

\* C6 as amended: they give exactly one record and exactly two warnings, the
\* blank line being reported like the malformed one.
C6_OneRecordTwoWarnings ==
    (pc = "exited" /\ decode = "read" /\ BlankMalformedValid) =>
        /\ Len(results) = 1
        /\ Len(warnings) = 2
        /\ \A n \in 1..2 : lines[warnings[n]] \in {BlankLine, MalformedLine}

\* C6 witness: such a file was run to the end.
C6_Witness ==
    /\ pc = "exited"
    /\ exit_code = <<0>>
    /\ lines = <<BlankLine, MalformedLine, DomainLine>>
    /\ Len(results) = 1

\* C7: once the output file was opened, at every point of the loop after the k-th
\* url has completed (k >= 1) the file as persisted is the header row and the k
\* rows of the completed urls, in the order they were processed.
C7_PersistedPrefix ==
    (/\ output_fh = "file"
     /\ ~sink_warned
     /\ pc \in {"loop", "fetch", "emit"}
     /\ Len(results) >= 1)
    => disk = <<HeaderRow>> \o [n \in 1..Len(results) |-> csv_row(results[n])]

\* C8: the exit status is not zero exactly when the input file is missing, cannot
\* be read, or holds no line that normalises.
C8_ExitStatus ==
    pc = "exited" =>
        (exit_code # <<0>> <=>
            \/ ~file_exists
            \/ decode \in {"undecodable", "denied"}
            \/ (decode = "read" /\ ExpectedUrls(lines) = <<>>))

\* C11: when an output path is given and open() raises, the warning is printed and
\* the run goes on without the file: the loop still takes every valid url, each
\* gets its record, nothing is raised, and process_file returns True.
C11_OpenFailureDegrades ==
    (output_file /\ sink_warned /\ output_fh = "None") =>
        /\ raised = "None"
        /\ pending = <<>> /\ disk = OldFile /\ writes = 0
        /\ pc \in {"loop", "fetch", "emit"} => Len(results) = j - 1
        /\ pc \in {"returned", "exited"} =>
              /\ ret = "True"
              /\ ResultUrls = ExpectedUrls(lines)

\* C11 witness: the open failed, and both urls of the file were processed to exit 0.
C11_Witness ==
    /\ pc = "exited"
    /\ exit_code = <<0>>
    /\ output_file /\ sink_warned /\ output_fh = "None"
    /\ lines = <<DomainLine, UrlLine>>
    /\ Len(results) = 2

\* A standard CSV reader (delimiter comma, quote character ", a doubled quote
\* inside a quoted field standing for one, not strict) run over text: the records
\* it yields, each a sequence of fields. A line break outside quotes ends the
\* record; a character after a closing quote is taken into the field.
RECURSIVE csv_reader(_, _, _, _)
csv_reader(text, state, field, fields) ==
    IF text = <<>>
    THEN IF state = "START_RECORD" THEN <<>> ELSE <<Append(fields, field)>>
    ELSE
    LET c == Head(text)
        rest == Tail(text)
    IN  CASE state \in {"START_RECORD", "START_FIELD"} ->
               IF c = "\n"
               THEN <<(IF state = "START_RECORD" THEN <<>> ELSE Append(fields, <<>>))>>
                        \o csv_reader(rest, "START_RECORD", <<>>, <<>>)
               ELSE IF c = "\"" THEN csv_reader(rest, "IN_QUOTED_FIELD", <<>>, fields)
               ELSE IF c = "," THEN csv_reader(rest, "START_FIELD", <<>>, Append(fields, <<>>))
               ELSE csv_reader(rest, "IN_FIELD", <<c>>, fields)
          [] state = "IN_FIELD" ->
               IF c = "\n"
               THEN <<Append(fields, field)>> \o csv_reader(rest, "START_RECORD", <<>>, <<>>)
               ELSE IF c = "," THEN csv_reader(rest, "START_FIELD", <<>>, Append(fields, field))
               ELSE csv_reader(rest, "IN_FIELD", Append(field, c), fields)
          [] state = "IN_QUOTED_FIELD" ->
               IF c = "\"" THEN csv_reader(rest, "QUOTE_IN_QUOTED_FIELD", field, fields)
               ELSE csv_reader(rest, "IN_QUOTED_FIELD", Append(field, c), fields)
          [] state = "QUOTE_IN_QUOTED_FIELD" ->
               IF c = "\"" THEN csv_reader(rest, "IN_QUOTED_FIELD", Append(field, c), fields)
               ELSE IF c = "," THEN csv_reader(rest, "START_FIELD", <<>>, Append(fields, field))
               ELSE IF c = "\n"
               THEN <<Append(fields, field)>> \o csv_reader(rest, "START_RECORD", <<>>, <<>>)
               ELSE csv_reader(rest, "IN_FIELD", Append(field, c), fields)

\* The rows handed to output_fh.write so far, flushed or not.
Written == disk \o pending

\* C12: every data row written to the output file reads back, through a standard
\* CSV reader, as one record of exactly three fields: the record's url, its
\* status as displayed and its whole title.
C12_CsvRoundTrip ==
    (/\ output_fh = "file"
     /\ ~sink_warned
     /\ raised = "None"
     /\ pc \in {"loop", "returned", "exited"})
    => \A n \in 1..Len(results) :
          csv_reader(Written[n + 1], "START_RECORD", <<>>, <<>>)
              = << <<results[n].url, status_display(results[n]), results[n].title>> >>

\* The last attempt of the fetch in progress ended in a status of the retry list
\* or in a transport error.
LastRetryable ==
    \/ Last.kind = "transport_error"
    \/ Last.kind = "response" /\ Last.status_code \in status_forcelist

\* C13 as stated: an attempt is followed by another one only if it ended in a
\* status of {429, 500, 502, 503, 504} or in a transport error, and only while
\* fewer than retries retries were made; no url gets more than retries+1 attempts.
C13_RetryGuard ==
    /\ fetch.attempts <= retries + 1
    /\ (pc = "fetch" /\ fetch.attempts >= 1) =>
          /\ LastRetryable
          /\ fetch.attempts <= retries

\* C13 as amended: the same, a 413 that carries a Retry-After header being
\* retried as well.
C13_RetryGuardOrRetryAfter ==
    /\ fetch.attempts <= retries + 1
    /\ (pc = "fetch" /\ fetch.attempts >= 1) =>
          /\ \/ LastRetryable
             \/ Last.kind = "response" /\ Last.status_code = 413 /\ Last.retry_after
          /\ fetch.attempts <= retries

\* C13 witness: with two retries, a forced status and a transport error were each
\* followed by another attempt, and the third attempt is the last one allowed.
C13_Witness ==
    /\ pc = "emit"
    /\ retries = 2
    /\ fetch.attempts = 3
    /\ fetch.forced >= 1
    /\ fetch.failed >= 1
    /\ ~result[1].success

\* C14: while the j-th valid url is fetched (or about to be, or just fetched), the
\* j-1 urls before it are resolved: each has its record in results and, with an
\* output file open, its row written; and exactly one sleep was made after each of
\* them when delay > 0, none at all when delay <= 0.
C14_SequentialAndPaced ==
    pc \in {"loop", "fetch", "emit"} =>
        /\ Len(results) = j - 1
        /\ output_fh = "file" => writes = j - 1
        /\ output_fh = "None" => writes = 0
        /\ sleeps = IF delay > 0 THEN j - 1 ELSE 0
        /\ pc # "loop" => j <= Len(valid_urls)

\* C14 witness: the second url is at its second attempt, after the first url got
\* its record, its row and one sleep.
C14_Witness ==
    /\ pc = "fetch"
    /\ j = 2
    /\ fetch.attempts = 1
    /\ delay = 1
    /\ sleeps = 1
    /\ output_fh = "file"
    /\ writes = 1
    /\ Len(results) = 1

\* C15: when extract_title ran on a received HTML response, the record is a
\* successful one with the numeric status of the response, whatever parsing did:
\* a parse failure leaves the extraction-failure prefix and the message as title,
\* a page without a title element the no-title placeholder.
C15_ExtractionFailureIsSoft ==
    (pc = "emit" /\ fetch.extract_calls = 1) =>
        /\ raised = "None"
        /\ result[1].success
        /\ result[1].status_code = IntVal(Last.status_code)
        /\ site.content.parse_error # <<>> =>
              /\ Len(result[1].title) = 2
              /\ result[1].title[1] = "title extraction failed: "
              /\ result[1].title[2] = site.content.parse_error[1][1]
        /\ (site.content.parse_error = <<>> /\ site.content.title_tag = <<>>) =>
              result[1].title = <<"no title">>

\* C15 witness: a 404 page that does not parse gave a successful record.
C15_Witness ==
    /\ pc = "emit"
    /\ site = HtmlBroken
    /\ fetch.extract_calls = 1
    /\ result[1].success
    /\ result[1].status_code = IntVal(404)
    /\ result[1].title = <<"title extraction failed: ", "parser error">>

\* A record as the claim wants it.
WellFormed(rec) ==
    LET numeric == rec.status_code[1] = "int"
        marked == /\ rec.status_code[1] = "str"
                  /\ rec.status_code[2] \in {"request failed", "processing failed"}
                  /\ Len(rec.title) = 2
                  /\ rec.title[1] = "error: "
                  /\ rec.title[2] \in {"RetryError", "ConnectionError", "Exception"}
    IN  /\ rec.success <=> numeric
        /\ ~rec.success <=> marked

\* C16: in every record process_url returns and in every record of results,
\* success is TRUE exactly when status_code is a numeric HTTP status, and FALSE
\* exactly when status_code is one of the two failure markers and the title is
\* the error prefix followed by the exception's message.
C16_RecordWellFormed ==
    /\ \A n \in 1..Len(results) : WellFormed(results[n])
    /\ pc = "emit" => WellFormed(result[1])

\* C16 witness: a fetch that ran out of retries on a 503 left a failure record in
\* results.
C16_Witness ==
    /\ Len(results) = 1
    /\ ~results[1].success
    /\ results[1].status_code = StrVal("request failed")
    /\ results[1].title = <<"error: ", "RetryError">>

\* C17: once the warning that the output file could not be created was printed
\* (the open or the header write failed), no write of a row to the output file is
\* attempted and nothing is raised on account of the output file.
C17_NoWriteAfterWarning ==
    sink_warned => (writes = 0 /\ raised # "OSError")

\* The run fails as a whole: the input file is missing, does not decode, or holds
\* no line that normalises.
FailsAsAWhole ==
    \/ ~file_exists
    \/ decode = "undecodable"
    \/ (decode = "read" /\ ExpectedUrls(lines) = <<>>)

\* C18: a run that fails as a whole makes no fetch and never opens the output
\* file: no attempt is made, no record and no row produced, and the file at the
\* output path stays as it was before the run.
C18_FailedRunTouchesNothing ==
    FailsAsAWhole =>
        /\ pc \notin {"open_output", "loop", "fetch", "emit"}
        /\ fetch = Idle
        /\ results = <<>>
        /\ output_fh = "None"
        /\ pending = <<>> /\ writes = 0
        /\ disk = OldFile
        /\ ret # "True"
        /\ pc = "exited" => exit_code = <<1>>

\* C18 witness: with -o given, a file of a blank and a malformed line ended the
\* run with status 1 and the old output file in place.
C18_Witness ==
    /\ pc = "exited"
    /\ exit_code = <<1>>
    /\ output_file
    /\ decode = "read"
    /\ lines = <<BlankLine, MalformedLine>>
    /\ Len(warnings) = 2
    /\ disk = OldFile

====
